---- MODULE Spec2Model ----
(***************************************************************************)
(* Model of src-tauri/src/lib.rs: the two Tauri commands write_json_file   *)
(* and read_json_file, the process environment they consult, the file      *)
(* system they act on, and the JSON text codec (serde_json) they use.      *)
(*                                                                         *)
(* Every command invocation is an asynchronous task; tasks of different    *)
(* callers interleave at the granularity of the system calls they make     *)
(* (mkdir, open with truncation, write, read).                             *)
(***************************************************************************)
EXTENDS Integers, Sequences, FiniteSets, TLC

(***************************************************************************)
(* Bounds of the model.                                                    *)
(***************************************************************************)
\* Command invocations one caller issues, one after the other.
MaxCalls == 3
\* Command invocations each of two concurrent callers issues.
MaxConcCalls == 2

(***************************************************************************)
(* Characters of file contents.  A file is a sequence of characters; NUL   *)
(* is the zero byte a sparse write leaves behind, BAD is a byte sequence   *)
(* that is not valid UTF-8.                                                *)
(***************************************************************************)
NL    == "\n"
SP    == " "
NUL   == "NUL"
BAD   == "BAD"
Digit == <<"0", "1", "2", "3", "4", "5", "6", "7", "8", "9">>

IsDigit(c) == \E d \in 1..10 : Digit[d] = c
DigitVal(c) == (CHOOSE d \in 1..10 : Digit[d] = c) - 1
\* serde_json's whitespace: space, \n, \t, \r (only the first two occur here)
IsWs(c) == c \in {SP, NL}

(***************************************************************************)
(* serde_json::Value, restricted to null, non-negative integers and        *)
(* arrays.  Every value is a record with a tag t.                          *)
(***************************************************************************)
Null     == [t |-> "null"]
Num(n)   == [t |-> "num", n |-> n]
Arr(xs)  == [t |-> "arr", items |-> xs]

(***************************************************************************)
(* serde_json::to_string_pretty (PrettyFormatter, indent of two spaces).   *)
(***************************************************************************)
RECURSIVE Decimal(_)
Decimal(n) == IF n < 10 THEN <<Digit[n + 1]>>
              ELSE Decimal(n \div 10) \o <<Digit[(n % 10) + 1]>>

RECURSIVE Indent(_)
Indent(d) == IF d = 0 THEN <<>> ELSE <<SP, SP>> \o Indent(d - 1)

RECURSIVE Pretty(_, _)
RECURSIVE PrettyItems(_, _, _)
\* items k.. of an array at nesting depth d, each on its own line
PrettyItems(xs, k, d) ==
    IF k > Len(xs) THEN <<>>
    ELSE (IF k = 1 THEN <<NL>> ELSE <<",", NL>>)
         \o Indent(d) \o Pretty(xs[k], d) \o PrettyItems(xs, k + 1, d)

Pretty(v, d) ==
    CASE v.t = "null" -> <<"n", "u", "l", "l">>
      [] v.t = "num"  -> Decimal(v.n)
      [] v.t = "arr"  ->
            IF Len(v.items) = 0 THEN <<"[", "]">>
            ELSE <<"[">> \o PrettyItems(v.items, 1, d + 1)
                 \o <<NL>> \o Indent(d) \o <<"]">>

ToStringPretty(v) == Pretty(v, 0)

(***************************************************************************)
(* serde_json::from_str::<Value>: a recursive-descent parser.  A parse     *)
(* result is [ok, val, next]: next is the index after the value.           *)
(***************************************************************************)
ParseFail(i) == [ok |-> FALSE, val |-> Null, next |-> i]
ParseOk(v, i) == [ok |-> TRUE, val |-> v, next |-> i]

RECURSIVE SkipWs(_, _)
SkipWs(s, i) == IF i <= Len(s) /\ IsWs(s[i]) THEN SkipWs(s, i + 1) ELSE i

RECURSIVE ParseDigits(_, _, _)
\* the digits following a non-zero leading digit
ParseDigits(s, i, acc) ==
    IF i <= Len(s) /\ IsDigit(s[i])
    THEN ParseDigits(s, i + 1, acc * 10 + DigitVal(s[i]))
    ELSE ParseOk(Num(acc), i)

\* Deserializer::parse_integer: a leading 0 may not be followed by a digit
ParseNumber(s, i) ==
    IF s[i] = "0"
    THEN IF i + 1 <= Len(s) /\ IsDigit(s[i + 1]) THEN ParseFail(i + 1)
         ELSE ParseOk(Num(0), i + 1)
    ELSE ParseDigits(s, i + 1, DigitVal(s[i]))

\* Deserializer::parse_ident after the leading n of null
ParseNull(s, i) ==
    IF i + 3 <= Len(s) /\ s[i + 1] = "u" /\ s[i + 2] = "l" /\ s[i + 3] = "l"
    THEN ParseOk(Null, i + 4)
    ELSE ParseFail(i)

RECURSIVE ParseValue(_, _)
RECURSIVE ParseElems(_, _, _)
\* SeqAccess::next_element_seed: i is just after "[" or after an element
ParseElems(s, i, acc) ==
    LET j == SkipWs(s, i) IN
    IF j > Len(s) THEN ParseFail(j)
    ELSE IF s[j] = "]"
         THEN ParseOk(Arr(acc), j + 1)
         ELSE IF Len(acc) = 0
              THEN LET r == ParseValue(s, j) IN
                   IF r.ok THEN ParseElems(s, r.next, Append(acc, r.val))
                   ELSE r
              ELSE IF s[j] = ","
                   THEN LET k == SkipWs(s, j + 1) IN
                        IF k > Len(s) \/ s[k] = "]" THEN ParseFail(k)
                        ELSE LET r == ParseValue(s, k) IN
                             IF r.ok
                             THEN ParseElems(s, r.next, Append(acc, r.val))
                             ELSE r
                   ELSE ParseFail(j)

ParseValue(s, i) ==
    LET j == SkipWs(s, i) IN
    IF j > Len(s) THEN ParseFail(j)
    ELSE IF s[j] = "n" THEN ParseNull(s, j)
    ELSE IF IsDigit(s[j]) THEN ParseNumber(s, j)
    ELSE IF s[j] = "[" THEN ParseElems(s, j + 1, <<>>)
    ELSE ParseFail(j)

\* from_str: one value, then Deserializer::end (only whitespace may follow)
FromStr(s) ==
    LET r == ParseValue(s, 1) IN
    IF r.ok /\ SkipWs(s, r.next) > Len(s) THEN r ELSE ParseFail(r.next)

(***************************************************************************)
(* Paths are sequences of components; <<>> is the file-system root.        *)
(***************************************************************************)
Join(path, name) == Append(path, name)
Parent(path) == SubSeq(path, 1, Len(path) - 1)

Filenames == {"a.json", "b.json"}
Callers   == {1, 2}

\* what the environment variables and the working directory can hold
AppDataPath == <<"appdata">>
HomePath    == <<"home">>
CwdPath     == <<"cwd">>
RootPaths   == {AppDataPath, HomePath, CwdPath}
AppDirs     == {Join(AppDataPath, "ucanduit"), Join(HomePath, ".ucanduit"),
                Join(CwdPath, "data")}
AllPaths    == {<<>>} \cup RootPaths \cup AppDirs
               \cup {Join(d, f) : d \in AppDirs, f \in Filenames}
NoPath      == <<"(none)">>

\* std::env::var: Ok(value), Err(NotPresent) or Err(NotUnicode(raw))
VarOk(path)      == [st |-> "Ok", val |-> path]
VarNotPresent    == [st |-> "NotPresent", val |-> NoPath]
VarNotUnicode(n) == [st |-> "NotUnicode", val |-> <<n>>]
\* std::env::current_dir: Ok(path) or Err (the directory was removed)
CwdOk      == [ok |-> TRUE, val |-> CwdPath]
CwdErr     == [ok |-> FALSE, val |-> NoPath]

\* the JSON values callers pass
Values == {Null, Num(3), Num(12), Arr(<<Num(3)>>)}
Unit   == [t |-> "unit"]

\* Result<_, String>
Ok(v)      == [ok |-> TRUE, val |-> v, err |-> "", arg |-> ""]
Err(e, a)  == [ok |-> FALSE, val |-> Null, err |-> e, arg |-> a]
NoResult   == Err("(pending)", "")
NoText     == <<"(none)">>

VARIABLES
    env,          \* the process environment: APPDATA, HOME, cwd
    kind,         \* file system: path -> "none" | "dir" | "file"
    bytes,        \* file system: path -> content of the regular file there
    pc,           \* caller -> where its command task stands
    op,           \* caller -> "write" | "read" | "none": the command invoked
    filename,     \* caller -> argument filename
    data,         \* caller -> argument data (write)
    app_dir,      \* caller -> local app_dir
    json_string,  \* caller -> local json_string (write)
    pos,          \* caller -> offset of the open file (write)
    contents,     \* caller -> local contents (read)
    result,       \* caller -> what the command returned
    left,         \* caller -> invocations it may still issue
    scope,        \* the arguments callers pass: [names, values]
    \* history, read by the properties only
    lastWrite,    \* filename -> the latest write of it: pending, ok(value), failed;
                  \*             ov: it was invoked while another write of it ran
    nOk,          \* filename -> successful writes of it so far (counted to 2)
    racy,         \* filename -> it was last truncated while another write of it
                  \*             stood between its open and its last write(2)
    written,      \* filename -> the values passed to writes of it so far
    obs           \* caller -> dir: the application directory existed when the
                  \*           command was invoked; the rest: what held when its
                  \*           read looked at the file

fsvars   == <<kind, bytes>>
taskvars == <<pc, op, filename, data, app_dir, json_string, pos, contents, result>>
histvars == <<lastWrite, nOk, racy, written, obs>>
vars     == <<env, kind, bytes, pc, op, filename, data, app_dir, json_string,
              pos, contents, result, left, scope, lastWrite, nOk, racy, written,
              obs>>

(***************************************************************************)
(* Lines 7-17 and 38-48: the application directory.                        *)
(***************************************************************************)
\* [ok, val]: ok = FALSE is the panic of current_dir().unwrap()
ResolveAppDir(e) ==
    IF e.APPDATA.st = "Ok"
    THEN [ok |-> TRUE, val |-> Join(e.APPDATA.val, "ucanduit")]
    ELSE IF e.HOME.st = "Ok"
         THEN [ok |-> TRUE, val |-> Join(e.HOME.val, ".ucanduit")]
         ELSE IF e.cwd.ok
              THEN [ok |-> TRUE, val |-> Join(e.cwd.val, "data")]
              ELSE [ok |-> FALSE, val |-> NoPath]

(***************************************************************************)
(* The file system calls the commands make.                                *)
(***************************************************************************)
\* mkdir(2): [ok, kind, err]
Mkdir(k, path) ==
    IF k[path] # "none"
    THEN [ok |-> FALSE, kind |-> k, err |-> "File exists (os error 17)"]
    ELSE IF k[Parent(path)] = "none"
    THEN [ok |-> FALSE, kind |-> k, err |-> "No such file or directory (os error 2)"]
    ELSE IF k[Parent(path)] = "file"
    THEN [ok |-> FALSE, kind |-> k, err |-> "Not a directory (os error 20)"]
    ELSE [ok |-> TRUE, kind |-> [k EXCEPT ![path] = "dir"], err |-> ""]

\* std::fs::create_dir_all
RECURSIVE CreateDirAll(_, _)
CreateDirAll(k, path) ==
    LET first == Mkdir(k, path) IN
    IF first.ok THEN first
    ELSE IF first.err # "No such file or directory (os error 2)"
         THEN IF k[path] = "dir"
              THEN [ok |-> TRUE, kind |-> k, err |-> ""]
              ELSE first
         ELSE LET up == CreateDirAll(k, Parent(path)) IN
              IF ~up.ok THEN up
              ELSE LET again == Mkdir(up.kind, path) IN
                   IF again.ok \/ up.kind[path] # "dir" THEN again
                   ELSE [ok |-> TRUE, kind |-> up.kind, err |-> ""]

\* Path::exists
Exists(k, path) == k[path] # "none"

\* faulty variant: the file is opened without O_TRUNC
OpenTruncate_NoTruncate(k, b, path) ==
    IF k[path] = "dir"
    THEN [ok |-> FALSE, kind |-> k, bytes |-> b, err |-> "Is a directory (os error 21)"]
    ELSE IF k[Parent(path)] # "dir"
    THEN [ok |-> FALSE, kind |-> k, bytes |-> b,
          err |-> "No such file or directory (os error 2)"]
    ELSE [ok |-> TRUE, kind |-> [k EXCEPT ![path] = "file"], bytes |-> b, err |-> ""]

\* File::create inside fs::write: open(O_WRONLY | O_CREAT | O_TRUNC)
OpenTruncate(k, b, path) ==
    IF k[path] = "dir"
    THEN [ok |-> FALSE, kind |-> k, bytes |-> b, err |-> "Is a directory (os error 21)"]
    ELSE IF k[Parent(path)] # "dir"
    THEN [ok |-> FALSE, kind |-> k, bytes |-> b,
          err |-> "No such file or directory (os error 2)"]
    ELSE [ok |-> TRUE, kind |-> [k EXCEPT ![path] = "file"],
          bytes |-> [b EXCEPT ![path] = <<>>], err |-> ""]

\* write(2) of chunk at offset off; a gap below off reads as zero bytes
RECURSIVE Zeros(_)
Zeros(n) == IF n <= 0 THEN <<>> ELSE <<NUL>> \o Zeros(n - 1)

WriteAt(old, off, chunk) ==
    LET padded == old \o Zeros(off - Len(old)) IN
    SubSeq(padded, 1, off) \o chunk
    \o SubSeq(padded, off + Len(chunk) + 1, Len(padded))

\* String::from_utf8 inside fs::read_to_string
IsUtf8(b) == \A i \in 1..Len(b) : b[i] # BAD

\* std::fs::read_to_string: [ok, val, err]
ReadToString(k, b, path) ==
    IF k[path] = "none"
    THEN [ok |-> FALSE, val |-> NoText, err |-> "No such file or directory (os error 2)"]
    ELSE IF k[path] = "dir"
    THEN [ok |-> FALSE, val |-> NoText, err |-> "Is a directory (os error 21)"]
    ELSE IF ~IsUtf8(b[path])
    THEN [ok |-> FALSE, val |-> NoText, err |-> "stream did not contain valid UTF-8"]
    ELSE [ok |-> TRUE, val |-> b[path], err |-> ""]

(***************************************************************************)
(* Initial states: every environment snapshot and the file-system states   *)
(* the commands can meet.                                                  *)
(***************************************************************************)
AppDataStates == {VarOk(AppDataPath), VarNotPresent, VarNotUnicode("appdata\\xFF")}
HomeStates    == {VarOk(HomePath), VarNotPresent, VarNotUnicode("home\\xFF")}
CwdStates     == {CwdOk, CwdErr}

\* what a.json in an existing application directory can hold at the start
OldContents == {ToStringPretty(Arr(<<Num(3)>>)), <<"[", "3">>, <<"1", BAD>>}

\* rootKind: kind of the three roots; dirKind: kind of the three application
\* directories; fileKind/old: what lies at a.json in each of them
\* the working directory, when there is one, is a directory
MakeKind(rootKind, dirKind, fileKind, cwdOk) ==
    [p \in AllPaths |->
        IF p = <<>> THEN "dir"
        ELSE IF p[1] = CwdPath[1] /\ ~cwdOk THEN "none"
        ELSE IF p = CwdPath THEN "dir"
        ELSE IF p \in RootPaths THEN rootKind
        ELSE IF p \in AppDirs THEN dirKind
        ELSE IF p[Len(p)] = "a.json" THEN fileKind ELSE "none"]

MakeBytes(fileKind, old) ==
    [p \in AllPaths |->
        IF fileKind = "file" /\ Len(p) = 3 /\ p[Len(p)] = "a.json" THEN old
        ELSE <<>>]

InitFs(cwdOk) ==
    \/ /\ \E rootKind \in {"none", "file", "dir"} :
             kind = MakeKind(rootKind, "none", "none", cwdOk)
       /\ bytes = MakeBytes("none", <<>>)
    \/ /\ \E fileKind \in {"none", "dir"} :
             kind = MakeKind("dir", "dir", fileKind, cwdOk)
       /\ bytes = MakeBytes("none", <<>>)
    \/ /\ kind = MakeKind("dir", "dir", "file", cwdOk)
       /\ \E old \in OldContents : bytes = MakeBytes("file", old)

InitTasks ==
    /\ pc = [p \in Callers |-> "idle"]
    /\ op = [p \in Callers |-> "none"]
    /\ filename = [p \in Callers |-> "a.json"]
    /\ data = [p \in Callers |-> Null]
    /\ app_dir = [p \in Callers |-> NoPath]
    /\ json_string = [p \in Callers |-> NoText]
    /\ pos = [p \in Callers |-> 0]
    /\ contents = [p \in Callers |-> NoText]
    /\ result = [p \in Callers |-> NoResult]

NoWrite  == [st |-> "none", val |-> Null, ov |-> FALSE]
NoObs    == [dir |-> FALSE, last |-> NoWrite, busy |-> FALSE, racy |-> FALSE,
             torn |-> FALSE]

InitHist ==
    /\ lastWrite = [f \in Filenames |-> NoWrite]
    /\ nOk = [f \in Filenames |-> 0]
    /\ racy = [f \in Filenames |-> FALSE]
    /\ written = [f \in Filenames |-> {}]
    /\ obs = [p \in Callers |-> NoObs]

\* one caller, issuing its commands one after the other
Init ==
    /\ env \in [APPDATA : AppDataStates, HOME : HomeStates, cwd : CwdStates]
    /\ InitFs(env.cwd.ok)
    /\ InitTasks
    /\ InitHist
    /\ left = [p \in Callers |-> IF p = 1 THEN MaxCalls ELSE 0]
    /\ scope = [names |-> Filenames, values |-> Values]

\* two callers whose commands overlap, in an environment where APPDATA is
\* set and the application directory exists or can be created
ConcValues == {Num(3), Num(12), Arr(<<>>)}

InitConc ==
    /\ env = [APPDATA |-> VarOk(AppDataPath), HOME |-> VarOk(HomePath), cwd |-> CwdOk]
    /\ \E dirKind \in {"none", "dir"} : kind = MakeKind("dir", dirKind, "none", TRUE)
    /\ bytes = MakeBytes("none", <<>>)
    /\ InitTasks
    /\ InitHist
    /\ left = [p \in Callers |-> MaxConcCalls]
    /\ scope = [names |-> {"a.json"}, values |-> ConcValues]

(***************************************************************************)
(* The host invokes a command: a new task with its arguments.              *)
(***************************************************************************)
\* another caller's write of f stands between its open and its last write(2)
Torn(p, f) == \E q \in Callers \ {p} : pc[q] = "w_write" /\ filename[q] = f
\* another caller's write of f has been invoked and has not returned
Busy(p, f) ==
    \E q \in Callers \ {p} :
        op[q] = "write" /\ filename[q] = f /\ pc[q] \notin {"idle", "panicked"}

\* the application directory of this environment exists
AppDirExists ==
    LET r == ResolveAppDir(env) IN r.ok /\ kind[r.val] = "dir"

Start(p, o, f, v, at) ==
    /\ pc[p] = "idle"
    /\ left[p] > 0
    /\ left' = [left EXCEPT ![p] = @ - 1]
    /\ pc' = [pc EXCEPT ![p] = at]
    /\ op' = [op EXCEPT ![p] = o]
    /\ filename' = [filename EXCEPT ![p] = f]
    /\ data' = [data EXCEPT ![p] = v]
    /\ app_dir' = [app_dir EXCEPT ![p] = NoPath]
    /\ json_string' = [json_string EXCEPT ![p] = NoText]
    /\ pos' = [pos EXCEPT ![p] = 0]
    /\ contents' = [contents EXCEPT ![p] = NoText]
    /\ result' = [result EXCEPT ![p] = NoResult]
    /\ obs' = [obs EXCEPT ![p] = [NoObs EXCEPT !.dir = AppDirExists]]
    /\ UNCHANGED <<env, kind, bytes, scope, nOk, racy>>

InvokeWrite(p) ==
    \E f \in scope.names, v \in scope.values :
        /\ Start(p, "write", f, v, "w_resolve")
        /\ lastWrite' = [lastWrite EXCEPT ![f] =
                            [st |-> "pending", val |-> v, ov |-> Busy(p, f)]]
        /\ written' = [written EXCEPT ![f] = @ \cup {v}]

InvokeRead(p) ==
    \E f \in scope.names :
        /\ Start(p, "read", f, Null, "r_resolve")
        /\ UNCHANGED <<lastWrite, written>>

\* the task returns r to the host
Return(p, r) ==
    /\ pc' = [pc EXCEPT ![p] = "idle"]
    /\ result' = [result EXCEPT ![p] = r]
    /\ IF op[p] = "write"
       THEN /\ lastWrite' = [lastWrite EXCEPT ![filename[p]] =
                    [st |-> IF r.ok THEN "ok" ELSE "failed", val |-> data[p],
                     ov |-> @.ov]]
            /\ nOk' = [nOk EXCEPT ![filename[p]] =
                    IF r.ok /\ @ < 2 THEN @ + 1 ELSE @]
       ELSE UNCHANGED <<lastWrite, nOk>>

Goto(p, at) ==
    /\ pc' = [pc EXCEPT ![p] = at]
    /\ UNCHANGED <<result, lastWrite, nOk>>

(***************************************************************************)
(* write_json_file, lines 6-34.                                            *)
(***************************************************************************)
\* lines 7-17
WriteResolve(p) ==
    /\ pc[p] = "w_resolve"
    /\ LET r == ResolveAppDir(env) IN
       /\ app_dir' = [app_dir EXCEPT ![p] = r.val]
       /\ Goto(p, IF r.ok THEN "w_mkdir" ELSE "panicked")
    /\ UNCHANGED <<env, kind, bytes, op, filename, data, json_string, pos,
                   contents, left, scope, racy, written, obs>>

\* faulty variant: the error of create_dir_all is dropped and the write goes on
WriteCreateDir_ErrorIgnored(p) ==
    /\ pc[p] = "w_mkdir"
    /\ kind' = CreateDirAll(kind, app_dir[p]).kind
    /\ Goto(p, "w_serialize")
    /\ UNCHANGED <<env, bytes, op, filename, data, app_dir, json_string, pos,
                   contents, left, scope, racy, written, obs>>

\* faulty variant: an existing application directory is an error (create_dir, not
\* create_dir_all)
WriteCreateDir_NotIdempotent(p) ==
    /\ pc[p] = "w_mkdir"
    /\ LET r == CreateDirAll(kind, app_dir[p]) IN
       IF r.ok /\ kind[app_dir[p]] # "dir"
       THEN /\ kind' = r.kind
            /\ Goto(p, "w_serialize")
       ELSE /\ UNCHANGED kind
            /\ Return(p, Err("Failed to create app directory: ",
                             IF r.ok THEN "File exists (os error 17)" ELSE r.err))
    /\ UNCHANGED <<env, bytes, op, filename, data, app_dir, json_string, pos,
                   contents, left, scope, racy, written, obs>>

\* lines 19-21
WriteCreateDir(p) ==
    /\ pc[p] = "w_mkdir"
    /\ LET r == CreateDirAll(kind, app_dir[p]) IN
       IF r.ok
       THEN /\ kind' = r.kind
            /\ Goto(p, "w_serialize")
       ELSE /\ UNCHANGED kind
            /\ Return(p, Err("Failed to create app directory: ", r.err))
    /\ UNCHANGED <<env, bytes, op, filename, data, app_dir, json_string, pos,
                   contents, left, scope, racy, written, obs>>

\* line 23
FilePath(p) == Join(app_dir[p], filename[p])

\* line 25; the Err arm of line 32 is unreachable for a serde_json::Value
WriteSerialize(p) ==
    /\ pc[p] = "w_serialize"
    /\ json_string' = [json_string EXCEPT ![p] = ToStringPretty(data[p])]
    /\ Goto(p, "w_open")
    /\ UNCHANGED <<env, kind, bytes, op, filename, data, app_dir, pos,
                   contents, left, scope, racy, written, obs>>

\* line 27, fs::write: File::create
WriteOpen(p) ==
    /\ pc[p] = "w_open"
    /\ LET r == OpenTruncate(kind, bytes, FilePath(p)) IN
       /\ kind' = r.kind
       /\ bytes' = r.bytes
       /\ IF r.ok
          THEN /\ Goto(p, "w_write")
               /\ racy' = [racy EXCEPT ![filename[p]] = Torn(p, filename[p])]
          ELSE /\ Return(p, Err("Failed to write file: ", r.err))
               /\ UNCHANGED racy
    /\ UNCHANGED <<env, op, filename, data, app_dir, json_string, pos,
                   contents, left, scope, written, obs>>

\* faulty variant: write instead of write_all, a short write(2) is taken for the whole
WriteAll_SingleWrite(p) ==
    /\ pc[p] = "w_write"
    /\ \E n \in 1..(Len(json_string[p]) - pos[p]) :
          /\ bytes' = [bytes EXCEPT ![FilePath(p)] =
                         WriteAt(@, pos[p], SubSeq(json_string[p], pos[p] + 1, pos[p] + n))]
          /\ pos' = [pos EXCEPT ![p] = @ + n]
          /\ Return(p, Ok(Unit))
    /\ UNCHANGED <<env, kind, op, filename, data, app_dir, json_string,
                   contents, left, scope, racy, written, obs>>

\* line 27, fs::write: write_all, one write(2) of n bytes per step;
\* lines 28: Ok(()) once the buffer is written
WriteAll(p) ==
    /\ pc[p] = "w_write"
    /\ \E n \in 1..(Len(json_string[p]) - pos[p]) :
          /\ bytes' = [bytes EXCEPT ![FilePath(p)] =
                         WriteAt(@, pos[p], SubSeq(json_string[p], pos[p] + 1, pos[p] + n))]
          /\ pos' = [pos EXCEPT ![p] = @ + n]
          /\ IF pos[p] + n = Len(json_string[p])
             THEN Return(p, Ok(Unit))
             ELSE Goto(p, "w_write")
    /\ UNCHANGED <<env, kind, op, filename, data, app_dir, json_string,
                   contents, left, scope, racy, written, obs>>

(***************************************************************************)
(* read_json_file, lines 37-65.                                            *)
(***************************************************************************)
\* history: what holds of the file as p's read looks at it (at the existence
\* check and again at the read); busy also records a write that came and
\* went between the two
Observe(p, o) ==
    LET f == filename[p] IN
    [dir  |-> o.dir,
     last |-> lastWrite[f],
     busy |-> o.busy \/ Busy(p, f) \/ (pc[p] = "r_read" /\ o.last # lastWrite[f]),
     racy |-> o.racy \/ racy[f],
     torn |-> o.torn \/ Torn(p, f)]

\* lines 38-48
ReadResolve(p) ==
    /\ pc[p] = "r_resolve"
    /\ LET r == ResolveAppDir(env) IN
       /\ app_dir' = [app_dir EXCEPT ![p] = r.val]
       /\ Goto(p, IF r.ok THEN "r_exists" ELSE "panicked")
    /\ UNCHANGED <<env, kind, bytes, op, filename, data, json_string, pos,
                   contents, left, scope, racy, written, obs>>

\* faulty variant: read ensures the application directory as write does
ReadExists_CreatesDir(p) ==
    /\ pc[p] = "r_exists"
    /\ IF Exists(kind, FilePath(p))
       THEN Goto(p, "r_read")
       ELSE Return(p, Err("File does not exist: ", filename[p]))
    /\ kind' = CreateDirAll(kind, app_dir[p]).kind
    /\ obs' = [obs EXCEPT ![p] = Observe(p, @)]
    /\ UNCHANGED <<env, bytes, op, filename, data, app_dir, json_string,
                   pos, contents, left, scope, racy, written>>

\* lines 50-54
ReadExists(p) ==
    /\ pc[p] = "r_exists"
    /\ IF Exists(kind, FilePath(p))
       THEN Goto(p, "r_read")
       ELSE Return(p, Err("File does not exist: ", filename[p]))
    /\ obs' = [obs EXCEPT ![p] = Observe(p, @)]
    /\ UNCHANGED <<env, kind, bytes, op, filename, data, app_dir, json_string,
                   pos, contents, left, scope, racy, written>>

\* lines 56, 63
ReadContents(p) ==
    /\ pc[p] = "r_read"
    /\ LET r == ReadToString(kind, bytes, FilePath(p)) IN
       IF r.ok
       THEN /\ contents' = [contents EXCEPT ![p] = r.val]
            /\ Goto(p, "r_parse")
       ELSE /\ UNCHANGED contents
            /\ Return(p, Err("Failed to read file: ", r.err))
    /\ obs' = [obs EXCEPT ![p] = Observe(p, @)]
    /\ UNCHANGED <<env, kind, bytes, op, filename, data, app_dir, json_string,
                   pos, left, scope, racy, written>>

\* faulty variant: a parse error is replaced by a default value
ParseContents_DefaultOnError(text) ==
    LET r == FromStr(text) IN
    IF r.ok THEN Ok(r.val) ELSE Ok(Null)

\* lines 58-60
ParseContents(text) ==
    LET r == FromStr(text) IN
    IF r.ok THEN Ok(r.val) ELSE Err("Failed to parse JSON: ", "serde_json::Error")

ReadParse(p) ==
    /\ pc[p] = "r_parse"
    /\ Return(p, ParseContents(contents[p]))
    /\ UNCHANGED <<env, kind, bytes, op, filename, data, app_dir, json_string,
                   pos, contents, left, scope, racy, written, obs>>

Next ==
    \E p \in Callers :
        \/ InvokeWrite(p)
        \/ InvokeRead(p)
        \/ WriteResolve(p)
        \/ WriteCreateDir(p)
        \/ WriteSerialize(p)
        \/ WriteOpen(p)
        \/ WriteAll(p)
        \/ ReadResolve(p)
        \/ ReadExists(p)
        \/ ReadContents(p)
        \/ ReadParse(p)

Spec == Init /\ [][Next]_vars

SpecConc == InitConc /\ [][Next]_vars

(***************************************************************************)
(* Properties.                                                             *)
(***************************************************************************)
Returned(p, o) == pc[p] = "idle" /\ op[p] = o
ReadPcs  == {"r_resolve", "r_exists", "r_read", "r_parse"}
\* p's task takes a step
Steps(p) == pc'[p] # pc[p] \/ pos'[p] # pos[p]

\* C1 (one caller, commands one after the other): a read of f that follows a
\* successful write(f, v), with no other write of f in between, returns Ok(v).
C1_RoundTrip ==
    \A p \in Callers :
        (Returned(p, "read") /\ lastWrite[filename[p]].st = "ok")
        => result[p] = Ok(lastWrite[filename[p]].val)

\* a read has returned the array it wrote, pretty-printed over four lines
C1_Witness ==
    \E p \in Callers :
        /\ Returned(p, "read")
        /\ lastWrite[filename[p]].st = "ok"
        /\ result[p] = Ok(Arr(<<Num(3)>>))
        /\ Len(bytes[FilePath(p)]) = 7

\* C2 as claimed: the directory a command has resolved, write and read alike,
\* is <APPDATA>/ucanduit if APPDATA is set, else <HOME>/.ucanduit if HOME is
\* set, else <cwd>/data.
ClaimedDir(e) ==
    IF e.APPDATA.st # "NotPresent" THEN Join(e.APPDATA.val, "ucanduit")
    ELSE IF e.HOME.st # "NotPresent" THEN Join(e.HOME.val, ".ucanduit")
    ELSE Join(CwdPath, "data")

C2_Precedence ==
    \A p \in Callers :
        (op[p] # "none" /\ pc[p] \notin {"w_resolve", "r_resolve", "panicked"})
        => app_dir[p] = ClaimedDir(env)

\* C3 (one caller): when the existence check of a read finds nothing at
\* <app_dir>/f, the read returns "File does not exist: " with the filename, and
\* no step of a read changes the file system (so a missing application
\* directory stays missing).
C3_MissingFile ==
    [][\A p \in Callers :
          /\ (pc[p] = "r_exists" /\ Steps(p) /\ kind[FilePath(p)] = "none")
             => /\ pc'[p] = "idle"
                /\ result'[p] = Err("File does not exist: ", filename[p])
          /\ (pc[p] \in ReadPcs /\ Steps(p)) => (kind' = kind /\ bytes' = bytes)]_vars

\* a read failed with file-not-found while the application directory is missing
C3_Witness ==
    \E p \in Callers :
        /\ Returned(p, "read")
        /\ result[p] = Err("File does not exist: ", "a.json")
        /\ kind[app_dir[p]] = "none"
        /\ ~obs[p].dir

\* C4 (one caller): after two or more successful writes of f, a read of f
\* returns the value of the latest one, and the file holds exactly its text.
C4_LastWriteWins ==
    \A p \in Callers :
        (Returned(p, "read") /\ nOk[filename[p]] >= 2
            /\ lastWrite[filename[p]].st = "ok")
        => /\ result[p] = Ok(lastWrite[filename[p]].val)
           /\ bytes[FilePath(p)] = ToStringPretty(lastWrite[filename[p]].val)

\* a read returned the one-character value written over earlier contents
C4_Witness ==
    \E p \in Callers :
        /\ Returned(p, "read")
        /\ nOk[filename[p]] = 2
        /\ written[filename[p]] = {Num(12), Num(3)}
        /\ result[p] = Ok(Num(3))

\* C5 as claimed: a read of an existing file whose content is not valid JSON
\* fails with the parse error.
C5_Original ==
    \A p \in Callers :
        (Returned(p, "read") /\ kind[FilePath(p)] = "file"
            /\ ~FromStr(bytes[FilePath(p)]).ok)
        => result[p].err = "Failed to parse JSON: "

\* C5 amended (one caller): when the file exists and its content is valid
\* UTF-8 but not valid JSON, the read fails with the parse error; and no step
\* of a read changes the file.
C5_CorruptContent ==
    [][\A p \in Callers :
          /\ (pc[p] \in ReadPcs /\ pc'[p] = "idle"
                /\ kind[FilePath(p)] = "file"
                /\ IsUtf8(bytes[FilePath(p)])
                /\ ~FromStr(bytes[FilePath(p)]).ok)
             => (~result'[p].ok /\ result'[p].err = "Failed to parse JSON: ")
          /\ (pc[p] \in ReadPcs /\ Steps(p)) => (kind' = kind /\ bytes' = bytes)]_vars

\* a read failed with the parse error on the corrupt text, which is still there
C5_Witness ==
    \E p \in Callers :
        /\ Returned(p, "read")
        /\ result[p].err = "Failed to parse JSON: "
        /\ bytes[FilePath(p)] = <<"[", "3">>

DirBlocked(k, path) == \E i \in 1..Len(path) : k[SubSeq(path, 1, i)] = "file"

\* C7: when the application directory cannot be created, the directory step
\* of a write returns "Failed to create app directory: " with the OS error
\* text, the file system is unchanged, and nothing was serialized or written.
C7_DirectoryCreateError ==
    [][\A p \in Callers :
          (pc[p] = "w_mkdir" /\ Steps(p) /\ DirBlocked(kind, app_dir[p]))
          => /\ pc'[p] = "idle"
             /\ ~result'[p].ok
             /\ result'[p].err = "Failed to create app directory: "
             /\ result'[p].arg = "Not a directory (os error 20)"
             /\ kind' = kind /\ bytes' = bytes
             /\ json_string'[p] = NoText /\ pos'[p] = 0]_vars

\* a write failed with the directory-creation error
C7_Witness ==
    \E p \in Callers :
        /\ Returned(p, "write")
        /\ result[p] = Err("Failed to create app directory: ",
                           "Not a directory (os error 20)")
        /\ json_string[p] = NoText

\* C8 as claimed: no invocation ends in anything but a returned result.
C8_AlwaysReturns == \A p \in Callers : pc[p] # "panicked"

C10_Original ==
    \A p \in Callers :
        (Returned(p, "read") /\ result[p].ok)
        => result[p].val \in written[filename[p]]

\* C10 amended (two callers, no file at the start): a successful read returns
\* a value that was passed to some write of that filename, provided that, as
\* the read looked at the file, no write of it stood between its open and its
\* last write(2), and the file was last truncated when none did.
C10_ReadsWrittenValue ==
    \A p \in Callers :
        (Returned(p, "read") /\ result[p].ok /\ ~obs[p].torn /\ ~obs[p].racy)
        => result[p].val \in written[filename[p]]

\* a read that overlapped a write invocation returned a written value
C10_Witness ==
    \E p \in Callers :
        /\ Returned(p, "read") /\ result[p].ok
        /\ obs[p].busy /\ ~obs[p].torn /\ ~obs[p].racy
        /\ result[p].val \in written[filename[p]]

====
